---- MODULE Spec2Model ----
(***************************************************************************)
(* Model of the zechub-wiki client code:                                   *)
(*   - src/src/components/ShieldedPoolChart.tsx: the fetch effect, the     *)
(*     render branches, the value scale and the tooltip lookup;            *)
(*   - src/src/constants/walletsConfig.ts: the PNG export hook.            *)
(* The React runtime: a state setter records the new hook state, a later   *)
(* render commits it, the layout effect runs in every commit and the fetch *)
(* effect runs after every commit in which one of its dependencies         *)
(* changed. The component renders again whenever its own state, the        *)
(* tooltip state of the withTooltip wrapper or its parent changes.         *)
(* src/next.config.js sets reactStrictMode: a development build invokes    *)
(* the effects of the mount commit twice, a production build once.         *)
(***************************************************************************)
EXTENDS Integers, Sequences, FiniteSets, TLC

VARIABLES
    chartData,      \* hook state: [ref, data], the array held by useState
    isLoading,      \* hook state: BOOLEAN
    error,          \* hook state: NoError (null) or the id of the Error object
    width,          \* hook state: chart width in pixels
    height,         \* hook state: chart height in pixels
    margin,         \* prop: [top, right, bottom, left]
    strictMode,     \* the build double-invokes mount effects (development)
    rendered,       \* hook state as seen by the last committed render
    effectPending,  \* invocations of the last commit's fetch effect still due
    requests,       \* promise chains of fetchShieldedSupplyData not yet finished
    nFetches,       \* number of network requests issued so far
    nSucceeded,     \* number of requests whose .then callback ran
    nFailed,        \* number of requests whose .catch callback ran
    tooltipData,    \* withTooltip state: NoDatum or the datum shown
    tooltipLeft,    \* withTooltip state as the component reads it: pointer x
                    \* of showTooltip, 0 (the prop's default) when hidden
    tooltipX0,      \* the pointer date computed by the last handleTooltip
    refCurrent,     \* divChartRef.current: NoElement (null) or a div element
    nElements,      \* number of div elements React has created for the chart
    children,       \* per div element, the overlay spans attached to it
    calls,          \* handleSaveToPng calls, running and returned, by call id
    downloads,      \* downloads triggered by link.click()
    logged          \* calls whose catch block wrote to console.error

chartVars == <<chartData, isLoading, error, width, height, margin, strictMode,
               rendered,
               effectPending, requests, nFetches, nSucceeded, nFailed,
               tooltipData, tooltipLeft, tooltipX0>>

exportVars == <<refCurrent, nElements, children, calls, downloads, logged>>

vars == <<chartVars, exportVars>>

----------------------------------------------------------------------------
(* Bounds                                                                  *)

\* Largest number of network requests one behaviour issues.
MaxFetches == 2
\* Longest series a response carries in the component's life cycle.
MaxLen == 2
\* Longest series of the tooltip and scale specifications.
MaxSeriesLen == 3
\* Observation dates are the days 0 .. MaxDay.
MaxDay == 2
\* Widest measured container, in pixels.
MaxWidth == 4
\* Largest left margin, in pixels.
MaxMarginLeft == 1
\* Height of a small measured container, in pixels.
SmallHeight == 20
\* Top and bottom margins of the scale specification, in pixels.
MarginTop == 10
MarginBottom == 20
\* Largest number of handleSaveToPng calls in one behaviour.
MaxExports == 2
\* Largest number of div elements React creates for the chart container.
MaxElements == 2

----------------------------------------------------------------------------
(* Program constants                                                       *)

DEFAULT_WIDTH == 1000
DEFAULT_HEIGHT == 500

\* Milliseconds between the time values of two consecutive days, as
\* new Date(d.close) gives them (no clock change in between).
DayLength == 86400000

\* Math.abs
Abs(n) == IF n < 0 THEN 0 - n ELSE n

NoError == 0
NoDatum == [close |-> -1, supply |-> -1]
DefaultMargin == [top |-> 0, right |-> 0, bottom |-> 0, left |-> 0]

----------------------------------------------------------------------------
(* Data: ShieldedAmountDatum and the series                                *)

\* Supply values the model samples; the scale reads them, the life cycle
\* and the tooltip lookup do not.
Supplies == {0, 1, 7, 40, 160}

ShieldedAmountDatum == [close : 0..MaxDay, supply : Supplies]

\* new Date(d.close): the time value, in milliseconds, of the day named by
\* the date string. Time 0 of the model is the first day a series can name,
\* a day after the epoch whose time value is below 2^41 ms.
getDate(d) == d.close * DayLength

getShieldedValue(d) == d.supply

IsSorted(s) == \A i \in 1..(Len(s) - 1) : getDate(s[i]) <= getDate(s[i + 1])

SeqsUpTo(S, n) == UNION {[1..k -> S] : k \in 0..n}

\* What the remote JSON document may hold: the empty series and the series
\* of one observation per day from day 0 on, up to MaxLen days.
ResponseSeries ==
    {[i \in 1..k |-> [close |-> i - 1, supply |-> 7]] : k \in 0..MaxLen}

SetMax(S) == CHOOSE m \in S : \A y \in S : y <= m
SetMin(S) == CHOOSE m \in S : \A y \in S : m <= y

----------------------------------------------------------------------------
(* Layout                                                                  *)

innerWidth(r) == r.width - margin.left - margin.right
innerHeight(r) == r.height - margin.top - margin.bottom

\* Sizes the browser can report for the container; 0 before it is laid out.
ClientWidths == {0, MaxWidth}
ClientHeights == {0, SmallHeight}

\* useLayoutEffect: clientWidth || providedWidth, clientHeight || providedHeight.
measuredWidth(cw) == IF cw # 0 THEN cw ELSE DEFAULT_WIDTH
measuredHeight(ch) == IF ch # 0 THEN ch ELSE DEFAULT_HEIGHT

----------------------------------------------------------------------------
(* Tooltip lookup                                                          *)

\* extent(chartData, getDate): the earliest and the latest date.
dateDomain(a) ==
    LET dates == {getDate(a[i]) : i \in 1..Len(a)}
    IN  <<SetMin(dates), SetMax(dates)>>

\* The fraction k / w has a power of two as denominator (w at most 1024),
\* so it is a double without rounding. For the position t = k / w of the
\* pointer in the pixel range, a * (1 - t) + b * t is then computed without
\* rounding for time values a, b.
Dyadic(k, w) == (Abs(k) * 1024) % w = 0

\* floor(dom[1] + (dom[2] - dom[1]) * k / w) for w > 0, the quotient taken
\* apart so that no intermediate value leaves the 32-bit range.
invertFloor(dom, k, w) ==
    dom[1] + ((dom[2] - dom[1]) \div w) * k + (((dom[2] - dom[1]) % w) * k) \div w

\* dom[1] + (dom[2] - dom[1]) * k / w is a whole number of milliseconds.
invertWhole(dom, k, w) == (((dom[2] - dom[1]) % w) * k) % w = 0

\* dateScale.invert(x): the Dates that new Date(a * (1 - t) + b * t) can be
\* for the linear map from the pixel range [margin.left, innerWidth +
\* margin.left] back to the date domain [a, b]. The Date constructor drops
\* the fraction of a millisecond. Where the exact value is whole and t is
\* not dyadic, the floating-point sum may fall just below it, which gives
\* the millisecond before. A degenerate range maps every x to the middle.
dateScaleInvert(r, x) ==
    LET dom == dateDomain(r.chartData.data)
        w == Abs(innerWidth(r))
        k == IF innerWidth(r) < 0 THEN margin.left - x ELSE x - margin.left
    IN  IF w = 0 THEN {(dom[1] + dom[2]) \div 2}
        ELSE IF invertWhole(dom, k, w) /\ ~Dyadic(k, w)
        THEN {invertFloor(dom, k, w) - 1, invertFloor(dom, k, w)}
        ELSE {invertFloor(dom, k, w)}

\* d3 bisector(accessor).left(a, x, lo, hi): binary search for the first
\* 0-based index in lo .. hi whose date is not before x.
RECURSIVE bisectLeft(_, _, _, _)
bisectLeft(a, x, lo, hi) ==
    IF lo < hi
    THEN LET mid == (lo + hi) \div 2
         IN  IF getDate(a[mid + 1]) < x
             THEN bisectLeft(a, x, mid + 1, hi)
             ELSE bisectLeft(a, x, lo, mid)
    ELSE lo

bisectDate(a, x, lo) == bisectLeft(a, x, lo, Len(a))

\* Variant: the left candidate d0 is kept without comparing it to d1.
selectIndexAlwaysLeft(a, x0) == bisectDate(a, x0, 1) - 1

\* Variant: the comparison of line 220 with >= in place of >.
selectIndexRightOnTie(a, x0) ==
    LET index == bisectDate(a, x0, 1)
    IN  IF index < Len(a)
        THEN IF x0 - getDate(a[index]) >= getDate(a[index + 1]) - x0
             THEN index ELSE index - 1
        ELSE index - 1

\* The 0-based index of the datum handleTooltip selects for pointer date x0:
\* d0 = chartData[index - 1], d1 = chartData[index] (undefined at the end).
\* The sequences of the model are 1-based: chartData[i] is a[i + 1].
selectIndex(a, x0) ==
    LET index == bisectDate(a, x0, 1)
    IN  IF index < Len(a)
        THEN IF x0 - getDate(a[index]) > getDate(a[index + 1]) - x0
             THEN index ELSE index - 1
        ELSE index - 1

----------------------------------------------------------------------------
(* Export hook: useExportDashboardAsPNG                                    *)

NoElement == 0

PoolsType == [default |-> "default", sprout |-> "sprout",
              sap |-> "sapling", ord |-> "orchard"]

\* poolData[key] when the key is absent or null.
NoEntry == [timestamp |-> "", supply |-> -1]
Entry(n) == [timestamp |-> "2024-01-01", supply |-> n]

\* Pool balances the model samples, with and without a null entry.
AllPools ==
    [sproutSupply |-> Entry(25843), saplingSupply |-> Entry(1234567),
     orchardSupply |-> Entry(1000)]
NoSapling ==
    [sproutSupply |-> Entry(7), saplingSupply |-> NoEntry,
     orchardSupply |-> Entry(999)]

\* Arguments of handleSaveToPng the model samples.
ExportInputs ==
    {[poolType |-> "default", poolData |-> AllPools],
     [poolType |-> "sprout", poolData |-> AllPools],
     [poolType |-> "sapling", poolData |-> AllPools],
     [poolType |-> "orchard", poolData |-> NoSapling],
     [poolType |-> "sapling", poolData |-> NoSapling]}

DigitChars == <<"0", "1", "2", "3", "4", "5", "6", "7", "8", "9">>

RECURSIVE decimal(_)
decimal(n) ==
    IF n < 10 THEN DigitChars[n + 1]
    ELSE decimal(n \div 10) \o DigitChars[(n % 10) + 1]

pad3(n) ==
    DigitChars[(n \div 100) + 1] \o DigitChars[((n \div 10) % 10) + 1]
        \o DigitChars[(n % 10) + 1]

\* Variant: the digits without group separators.
toLocaleStringUngrouped(n) == decimal(n)

\* Number.prototype.toLocaleString() of a non-negative integer in the en-US
\* locale: decimal digits in groups of three separated by commas.
RECURSIVE toLocaleString(_)
toLocaleString(n) ==
    IF n < 1000 THEN decimal(n)
    ELSE toLocaleString(n \div 1000) \o "," \o pad3(n % 1000)

\* `${poolData[key]?.supply.toLocaleString()}`
supplyText(entry) ==
    IF entry = NoEntry THEN "undefined" ELSE toLocaleString(entry.supply)

\* The text node's content chosen by the if / else-if chain.
poolQtyText(poolType, poolData) ==
    IF poolType = PoolsType.sprout
    THEN supplyText(poolData.sproutSupply) \o " ZEC in Sprout Pool"
    ELSE IF poolType = PoolsType.ord
    THEN supplyText(poolData.orchardSupply) \o " ZEC in Orchard Pool"
    ELSE IF poolType = PoolsType.sap
    THEN supplyText(poolData.saplingSupply) \o " ZEC in Sapling Pool"
    ELSE ""

\* Variant: the span is left in the child list.
removeChildSkipped(kids, span) == kids

\* removeChild(span) on the element's child list.
removeChild(kids, span) == kids \ {span}

ExportIdle ==
    /\ refCurrent = NoElement
    /\ nElements = 0
    /\ children = [e \in 1..MaxElements |-> {}]
    /\ calls = <<>>
    /\ downloads = {}
    /\ logged = {}

\* React commits the div carrying ref={divChartRef}.
AttachRef ==
    /\ refCurrent = NoElement
    /\ nElements < MaxElements
    /\ nElements' = nElements + 1
    /\ refCurrent' = nElements + 1
    /\ UNCHANGED <<children, calls, downloads, logged>>
    /\ UNCHANGED chartVars

\* React unmounts that div and resets the ref to null.
DetachRef ==
    /\ refCurrent # NoElement
    /\ refCurrent' = NoElement
    /\ UNCHANGED <<nElements, children, calls, downloads, logged>>
    /\ UNCHANGED chartVars

\* handleSaveToPng up to its await: the label is built, the span is
\* appended when the ref is set, html2canvas is called on the ref's element.
\* The span of call i is identified by i.
StartExport ==
    \E in \in ExportInputs :
        /\ Len(calls) < MaxExports
        /\ children' = IF refCurrent # NoElement
                       THEN [children EXCEPT ![refCurrent] = @ \cup {Len(calls) + 1}]
                       ELSE children
        /\ calls' = Append(calls,
                        [poolType |-> in.poolType, poolData |-> in.poolData,
                         text |-> poolQtyText(in.poolType, in.poolData),
                         appendedTo |-> refCurrent, stage |-> "rasterizing",
                         outcome |-> "none", refAtEnd |-> NoElement])
        /\ UNCHANGED <<refCurrent, nElements, downloads, logged>>
        /\ UNCHANGED chartVars

\* html2canvas resolved. canvas.toDataURL may throw; otherwise the link is
\* clicked and divChartRef.current?.removeChild(span) runs, which is skipped
\* on a null ref and throws when the span is no child of the current element.
ExportResolve ==
    \E i \in 1..Len(calls), dataUrlOk \in BOOLEAN :
        LET c == calls[i]
            removeThrows == refCurrent # NoElement /\ i \notin children[refCurrent]
        IN  /\ c.stage = "rasterizing"
            /\ c.appendedTo # NoElement
            /\ IF dataUrlOk
               THEN /\ downloads' = downloads \cup
                          {[call |-> i,
                            file |-> "zcash-" \o c.poolType \o "-pool-chart.png"]}
                    /\ children' = IF refCurrent # NoElement /\ ~removeThrows
                                   THEN [children EXCEPT ![refCurrent] = removeChild(@, i)]
                                   ELSE children
                    /\ logged' = IF removeThrows THEN logged \cup {i} ELSE logged
                    /\ calls' = [calls EXCEPT ![i].stage = "returned",
                                              ![i].refAtEnd = refCurrent,
                                              ![i].outcome = IF removeThrows
                                                             THEN "downloaded, then threw"
                                                             ELSE "downloaded"]
               ELSE /\ logged' = logged \cup {i}
                    /\ calls' = [calls EXCEPT ![i].stage = "returned",
                                              ![i].refAtEnd = refCurrent,
                                              ![i].outcome = "failed"]
                    /\ UNCHANGED <<children, downloads>>
            /\ UNCHANGED <<refCurrent, nElements>>
            /\ UNCHANGED chartVars

\* html2canvas rejected (always so for a null element): the catch block
\* logs the error and the call returns.
ExportReject ==
    \E i \in 1..Len(calls) :
        /\ calls[i].stage = "rasterizing"
        /\ logged' = logged \cup {i}
        /\ calls' = [calls EXCEPT ![i].stage = "returned",
                                  ![i].refAtEnd = refCurrent,
                                  ![i].outcome = "failed"]
        /\ UNCHANGED <<refCurrent, nElements, children, downloads>>
        /\ UNCHANGED chartVars

NextExport ==
    \/ AttachRef
    \/ DetachRef
    \/ StartExport
    \/ ExportResolve
    \/ ExportReject

----------------------------------------------------------------------------
(* Chart component: render branches                                        *)

\* Variant: the loading branch joins its two tests with && in place of ||.
ViewLoadingWhenEmptyAndFetching(r) ==
    IF Len(r.chartData.data) = 0 /\ r.isLoading THEN "loading"
    ELSE IF r.error # NoError THEN "error"
    ELSE "chart"

\* Variant: the loading branch tests isLoading alone.
ViewLoadingOnlyWhileFetching(r) ==
    IF r.isLoading THEN "loading"
    ELSE IF r.error # NoError THEN "error"
    ELSE "chart"

\* The element the render function returns for hook state r.
View(r) ==
    IF Len(r.chartData.data) = 0 \/ r.isLoading THEN "loading"
    ELSE IF r.error # NoError THEN "error"
    ELSE "chart"

HookState == [chartData |-> chartData, isLoading |-> isLoading, error |-> error,
              width |-> width, height |-> height]

----------------------------------------------------------------------------
(* Chart component: fetch effect and promise chain                         *)

\* Variant: the effect without its isLoading early return.
ShouldFetchIgnoringLoading(r) == Len(r.chartData.data) = 0

\* The two early returns of the effect, on the values its render closed over.
ShouldFetch(r) == ~r.isLoading /\ ~(Len(r.chartData.data) > 0)

\* The first render is committed with the useState initial values, its
\* layout effect has measured the container, its fetch effect is due:
\* once, or twice in a development build under reactStrictMode.
InitChart ==
    /\ chartData = [ref |-> 0, data |-> <<>>]
    /\ isLoading = FALSE
    /\ error = NoError
    /\ margin \in {DefaultMargin, [DefaultMargin EXCEPT !.left = MaxMarginLeft]}
    /\ rendered = [chartData |-> [ref |-> 0, data |-> <<>>], isLoading |-> FALSE,
                   error |-> NoError, width |-> DEFAULT_WIDTH, height |-> DEFAULT_HEIGHT]
    /\ \E cw \in ClientWidths : width = measuredWidth(cw)
    /\ \E ch \in ClientHeights : height = measuredHeight(ch)
    /\ strictMode \in BOOLEAN
    /\ effectPending = IF strictMode THEN 2 ELSE 1
    /\ requests = {}
    /\ nFetches = 0
    /\ nSucceeded = 0
    /\ nFailed = 0
    /\ tooltipData = NoDatum
    /\ tooltipLeft = 0
    /\ tooltipX0 = 0
    /\ ExportIdle

\* useEffect body, run after a commit whose dependencies changed. The
\* invocations due run one after the other without interruption, each on
\* the values the same render closed over: each one that passes the early
\* returns calls setIsLoading(true) and issues a request.
RunEffect ==
    /\ effectPending > 0
    /\ effectPending' = 0
    /\ IF ShouldFetch(rendered)
       THEN /\ nFetches + effectPending <= MaxFetches
            /\ isLoading' = TRUE
            /\ nFetches' = nFetches + effectPending
            /\ requests' = requests \cup
                  {[id |-> nFetches + j, stage |-> "pending"] : j \in 1..effectPending}
       ELSE UNCHANGED <<isLoading, nFetches, requests>>
    /\ UNCHANGED <<chartData, error, width, height, margin, strictMode, rendered,
                   nSucceeded, nFailed, tooltipData, tooltipLeft, tooltipX0>>
    /\ UNCHANGED exportVars

\* Variant: a successful response also clears the error state.
ThenCallbackClearingError ==
    \E r \in requests, data \in ResponseSeries :
        /\ r.stage = "pending"
        /\ chartData' = [ref |-> r.id, data |-> data]
        /\ error' = NoError
        /\ requests' = (requests \ {r}) \cup {[r EXCEPT !.stage = "settled"]}
        /\ nSucceeded' = nSucceeded + 1
        /\ UNCHANGED <<isLoading, width, height, margin, strictMode, rendered,
                       effectPending, nFetches, nFailed,
                       tooltipData, tooltipLeft, tooltipX0>>
        /\ UNCHANGED exportVars

\* .then((data) => setChartData(data)): the response was ok and parsed.
ThenCallback ==
    \E r \in requests, data \in ResponseSeries :
        /\ r.stage = "pending"
        /\ chartData' = [ref |-> r.id, data |-> data]
        /\ requests' = (requests \ {r}) \cup {[r EXCEPT !.stage = "settled"]}
        /\ nSucceeded' = nSucceeded + 1
        /\ UNCHANGED <<isLoading, error, width, height, margin, strictMode, rendered,
                       effectPending, nFetches, nFailed,
                       tooltipData, tooltipLeft, tooltipX0>>
        /\ UNCHANGED exportVars

\* .catch((error) => setError(error)): fetch rejected, status not ok, bad JSON.
CatchCallback ==
    \E r \in requests :
        /\ r.stage = "pending"
        /\ error' = r.id
        /\ requests' = (requests \ {r}) \cup {[r EXCEPT !.stage = "settled"]}
        /\ nFailed' = nFailed + 1
        /\ UNCHANGED <<chartData, isLoading, width, height, margin, strictMode, rendered,
                       effectPending, nFetches, nSucceeded,
                       tooltipData, tooltipLeft, tooltipX0>>
        /\ UNCHANGED exportVars

\* .finally(() => setIsLoading(false))
FinallyCallback ==
    \E r \in requests :
        /\ r.stage = "settled"
        /\ isLoading' = FALSE
        /\ requests' = requests \ {r}
        /\ UNCHANGED <<chartData, error, width, height, margin, strictMode, rendered,
                       effectPending, nFetches, nSucceeded, nFailed,
                       tooltipData, tooltipLeft, tooltipX0>>
        /\ UNCHANGED exportVars

DepsChanged ==
    \/ rendered.chartData # chartData
    \/ rendered.isLoading # isLoading
    \/ rendered.error # error

\* A re-render commits the hook state: after a state setter of the
\* component, after showTooltip or hideTooltip changed the props the
\* withTooltip wrapper passes, or with the parent. Its layout effect
\* measures the container and sets width and height; the fetch effect is
\* scheduled when chartData, isLoading or error differ from the previous
\* commit.
Render ==
    /\ effectPending = 0
    /\ rendered' = HookState
    /\ effectPending' = IF DepsChanged THEN 1 ELSE 0
    /\ \E cw \in ClientWidths : width' = measuredWidth(cw)
    /\ \E ch \in ClientHeights : height' = measuredHeight(ch)
    /\ UNCHANGED <<chartData, isLoading, error, margin, strictMode, requests, nFetches,
                   nSucceeded, nFailed, tooltipData, tooltipLeft, tooltipX0>>
    /\ UNCHANGED exportVars

\* Pointer positions: localPoint(event).x, or 0 when there is none.
PointerXs == (0 - 1)..(MaxWidth + 1)

\* handleTooltip of the committed render, reachable through the Bar element.
HandleTooltip ==
    /\ View(rendered) = "chart"
    /\ \E x \in PointerXs : \E x0 \in dateScaleInvert(rendered, x) :
          LET a == rendered.chartData.data
          IN  /\ tooltipData' = a[selectIndex(a, x0) + 1]
              /\ tooltipLeft' = x
              /\ tooltipX0' = x0
    /\ UNCHANGED <<chartData, isLoading, error, width, height, margin, strictMode,
                   rendered, effectPending, requests, nFetches,
                   nSucceeded, nFailed>>
    /\ UNCHANGED exportVars

\* onMouseLeave={() => hideTooltip()}: tooltipData and tooltipLeft become
\* undefined, and the component reads tooltipLeft as its default 0.
HideTooltip ==
    /\ View(rendered) = "chart"
    /\ tooltipData' = NoDatum
    /\ tooltipLeft' = 0
    /\ UNCHANGED <<chartData, isLoading, error, width, height, margin, strictMode, rendered,
                   effectPending, requests, nFetches, nSucceeded, nFailed,
                   tooltipX0>>
    /\ UNCHANGED exportVars

NextChart ==
    \/ RunEffect
    \/ ThenCallback
    \/ CatchCallback
    \/ FinallyCallback
    \/ Render
    \/ HandleTooltip
    \/ HideTooltip

SpecChart == InitChart /\ [][NextChart]_vars

----------------------------------------------------------------------------
(* Value scale                                                             *)

\* Rationals are pairs <<n, d>> with d > 0.
RECURSIVE Pow10(_)
Pow10(k) == IF k = 0 THEN 1 ELSE 10 * Pow10(k - 1)

CeilDiv(a, b) == 0 - ((0 - a) \div b)

\* Math.floor(Math.log10(n / d)) for a positive rational n / d.
RECURSIVE FloorLog10(_, _)
FloorLog10(n, d) ==
    IF n >= 10 * d THEN FloorLog10(n, 10 * d) + 1
    ELSE IF n < d THEN FloorLog10(10 * n, d) - 1
    ELSE 0

\* d3 tickIncrement(0, v, 10) for v = n / d > 0: with step = v / 10,
\* power = floor(log10(step)) and error = step / 10^power, the factor is
\* 10, 5, 2 or 1 as error reaches sqrt(50), sqrt(10), sqrt(2); the result is
\* factor * 10^power, or -(10^-power / factor) when power < 0.
tickIncrement(n, d) ==
    LET power == FloorLog10(n, 10 * d)
        en == IF power >= 0 THEN n ELSE n * Pow10(0 - power)
        ed == IF power >= 0 THEN 10 * d * Pow10(power) ELSE 10 * d
        factor == IF en * en >= 50 * ed * ed THEN 10
                  ELSE IF en * en >= 10 * ed * ed THEN 5
                  ELSE IF en * en >= 2 * ed * ed THEN 2
                  ELSE 1
    IN  IF power >= 0 THEN factor * Pow10(power)
        ELSE 0 - (Pow10(0 - power) \div factor)

\* One rounding of nice(), the values it can give for stop = v > 0:
\* Math.ceil(stop / step) * step for step > 0, where a whole quotient
\* means a whole stop, which is divided without rounding;
\* Math.floor(stop * step) / step for step < 0, where the product is
\* computed in doubles: when it is whole and stop is no double itself, the
\* double product may lie just beyond the whole number (0.07 * -200 =
\* -14.000000000000002) and Math.floor then moves one step further.
niceRound(v, step) ==
    IF step > 0 THEN {<<CeilDiv(v[1], v[2] * step) * step, 1>>}
    ELSE IF (v[1] * (0 - step)) % v[2] = 0 /\ ~Dyadic(v[1], v[2])
    THEN {<<(v[1] * (0 - step)) \div v[2], 0 - step>>,
          <<(v[1] * (0 - step)) \div v[2] + 1, 0 - step>>}
    ELSE {<<CeilDiv(v[1] * (0 - step), v[2]), 0 - step>>}

\* The loop of d3 scale.nice(10) on the domain [0, v], v > 0, the values
\* it can end with: round until the step repeats; after maxIter iterations
\* the domain is left as it was.
RECURSIVE niceLoop(_, _, _, _)
niceLoop(orig, cur, prestep, maxIter) ==
    IF maxIter = 0 THEN {orig}
    ELSE LET step == tickIncrement(cur[1], cur[2])
         IN  IF step = prestep THEN {cur}
             ELSE UNION {niceLoop(orig, c, step, maxIter - 1) : c \in niceRound(cur, step)}

\* The values the far end of the niced domain [0, v] can have. A zero
\* extent has no step and is left alone; for v < 0 nice() swaps the ends
\* and rounds v away from 0.
niceUpper(v) ==
    IF v[1] = 0 THEN {v}
    ELSE IF v[1] > 0 THEN niceLoop(v, v, 0, 10)
    ELSE {<<0 - m[1], m[2]>> :
            m \in niceLoop(<<0 - v[1], v[2]>>, <<0 - v[1], v[2]>>, 0, 10)}

\* max(chartData, getShieldedValue) || 0
yMax(a) == IF Len(a) = 0 THEN 0 ELSE SetMax({getShieldedValue(a[i]) : i \in 1..Len(a)})

\* Variant: the domain's upper end without the innerHeight / 3 padding.
valueDomainUnpadded(r) == <<3 * yMax(r.chartData.data), 3>>

\* The domain's upper end before nice: max(supply) + innerHeight / 3.
valueDomainRaw(r) == <<3 * yMax(r.chartData.data) + innerHeight(r), 3>>

\* The values domain()[1] of shieldedValueScale can have, as rationals.
shieldedValueScaleMax(r) == niceUpper(valueDomainRaw(r))

----------------------------------------------------------------------------
(* Specifications of the loaded chart                                      *)

\* The component after the fetches of its mount effect have all delivered
\* series a, in either order, everything committed: chartData is the array
\* of the request answered last.
Loaded(a) ==
    /\ strictMode \in BOOLEAN
    /\ nFetches = IF strictMode THEN 2 ELSE 1
    /\ nSucceeded = nFetches
    /\ \E id \in 1..nFetches : chartData = [ref |-> id, data |-> a]
    /\ isLoading = FALSE
    /\ error = NoError
    /\ effectPending = 0
    /\ requests = {}
    /\ nFailed = 0
    /\ tooltipData = NoDatum
    /\ tooltipLeft = 0
    /\ tooltipX0 = 0
    /\ ExportIdle

TooltipSeries ==
    {s \in SeqsUpTo([close : 0..MaxDay, supply : {7}], MaxSeriesLen) :
        Len(s) > 0 /\ IsSorted(s)}

InitTooltip ==
    /\ \E a \in TooltipSeries : Loaded(a)
    /\ margin \in {[DefaultMargin EXCEPT !.left = l] : l \in 0..MaxMarginLeft}
    /\ width \in {measuredWidth(cw) : cw \in ClientWidths \cup {MaxWidth - 1}}
    /\ height = DEFAULT_HEIGHT
    /\ rendered = HookState

NextTooltip ==
    \/ HandleTooltip
    \/ HideTooltip

SpecTooltip == InitTooltip /\ [][NextTooltip]_vars

ScaleSeries ==
    {s \in SeqsUpTo([close : {0}, supply : Supplies], 2) : Len(s) > 0}

\* The loaded chart whose last commit saw the default height, with the
\* container measured since.
InitScale ==
    /\ \E a \in ScaleSeries : Loaded(a)
    /\ margin \in {[DefaultMargin EXCEPT !.top = t, !.bottom = b] :
                      t \in {0, MarginTop}, b \in {0, MarginBottom}}
    /\ width = DEFAULT_WIDTH
    /\ \E ch \in ClientHeights : height = measuredHeight(ch)
    /\ rendered = [HookState EXCEPT !.height = DEFAULT_HEIGHT]

NextScale ==
    \/ Render

SpecScale == InitScale /\ [][NextScale]_vars

\* The export hook beside a chart that has just been constructed.
InitExport ==
    /\ InitChart
    /\ margin = DefaultMargin
    /\ width = DEFAULT_WIDTH
    /\ height = DEFAULT_HEIGHT

SpecExport == InitExport /\ [][NextExport]_vars

----------------------------------------------------------------------------
(* Chart component: claims                                                 *)

InFlight == {r \in requests : r.stage = "pending"}

\* C1 (as claimed): once a fetch has completed successfully, whatever series
\* it returned, no further network request is ever issued.
C1_NoRequestAfterSuccess ==
    [][nSucceeded > 0 => nFetches' = nFetches]_vars

\* C2 (as claimed): after a failed fetch (error set, isLoading reset to
\* false, chartData still empty) the effect never issues another request.
C2_NoRetryAfterFailure ==
    [][(nFailed > 0 /\ error # NoError /\ ~isLoading /\ Len(chartData.data) = 0)
          => nFetches' = nFetches]_vars

\* C3 (as claimed): in the committed state that follows a failed fetch
\* (error set, no longer loading) the view is the error indicator.
C3_ErrorViewAfterFailure ==
    (rendered.error # NoError /\ ~rendered.isLoading) => View(rendered) = "error"

\* C4: whenever a fetch is in flight (isLoading) or the stored series is
\* empty, the view is the loading indicator and never the chart: for the
\* committed render and for a render of the hook state in every build, and
\* for the hook state against the view on screen in every build that
\* invokes each effect once (with two requests of the mount effect, the
\* second response can empty the hook state while the chart that the first
\* one filled is on screen until the next render).
C4_LoadingWhileFetchingOrEmpty ==
    /\ (rendered.isLoading \/ Len(rendered.chartData.data) = 0)
          => View(rendered) = "loading"
    /\ (isLoading \/ Len(chartData.data) = 0) => View(HookState) = "loading"
    /\ ~strictMode =>
          ((isLoading \/ Len(chartData.data) = 0) => View(rendered) = "loading")

\* C4 witness: a fetch returned an empty series, the chain finished and the
\* result is committed; the loading indicator is on screen.
C4_Witness ==
    /\ nSucceeded > 0
    /\ chartData.ref > 0
    /\ Len(chartData.data) = 0
    /\ ~isLoading
    /\ rendered = HookState
    /\ View(rendered) = "loading"

C11_NoChartAfterFailure ==
    nFailed > 0 =>
        /\ error # NoError
        /\ View(HookState) # "chart"
        /\ rendered.error # NoError => View(rendered) # "chart"
        /\ ~strictMode => View(rendered) # "chart"
        /\ (rendered = HookState /\ Len(chartData.data) > 0 /\ ~isLoading)
              => View(rendered) = "error"

\* C11 witness: a fetch failed, a later fetch returned a non-empty series,
\* the result is committed and the error indicator is on screen.
C11_Witness ==
    /\ nFailed > 0
    /\ nSucceeded > 0
    /\ Len(rendered.chartData.data) > 0
    /\ rendered = HookState
    /\ requests = {}
    /\ View(rendered) = "error"

\* The Bar element carrying handleTooltip is part of the committed view.
BarRendered == View(rendered) = "chart"

\* C12: whenever the Bar element with the pointer handlers is on screen,
\* the series its render closed over is non-empty, isLoading is false and
\* error is null, and for every pointer position the bisect index lies in
\* 1 .. length, so d0 = chartData[index - 1] and the datum handleTooltip
\* shows are observations of that series. In every build that invokes each
\* effect once the series of the hook state is non-empty as well and a
\* datum on show is an observation of it.
C12_TooltipDatumDefined ==
    /\ BarRendered =>
          /\ Len(rendered.chartData.data) > 0
          /\ ~strictMode => Len(chartData.data) > 0
          /\ ~rendered.isLoading
          /\ rendered.error = NoError
          /\ \A x \in PointerXs : \A x0 \in dateScaleInvert(rendered, x) :
                LET a == rendered.chartData.data
                    index == bisectDate(a, x0, 1)
                IN  /\ index >= 1
                    /\ index <= Len(a)
                    /\ selectIndex(a, x0) \in 0..(Len(a) - 1)
    /\ tooltipData # NoDatum => tooltipData \in ShieldedAmountDatum
    /\ (~strictMode /\ tooltipData # NoDatum) =>
          \E i \in 1..Len(chartData.data) : chartData.data[i] = tooltipData

\* C12 witness: with the chart on screen, handleTooltip ran for a pointer
\* date not after the first observation, where bisect returns its lower
\* bound 1, and shows the first observation.
C12_Witness ==
    /\ BarRendered
    /\ tooltipData # NoDatum
    /\ Len(rendered.chartData.data) = 2
    /\ tooltipX0 <= getDate(rendered.chartData.data[1])
    /\ bisectDate(rendered.chartData.data, tooltipX0, 1) = 1
    /\ tooltipData = rendered.chartData.data[1]

----------------------------------------------------------------------------
(* Tooltip lookup: claims                                                  *)

Shown == rendered.chartData.data

\* The pointer date lies strictly between the observations i and i + 1 of
\* the series on screen, at the same distance from both.
TieAt(i) ==
    /\ getDate(Shown[i]) < tooltipX0
    /\ tooltipX0 < getDate(Shown[i + 1])
    /\ tooltipX0 - getDate(Shown[i]) = getDate(Shown[i + 1]) - tooltipX0

\* C5: after handleTooltip, the datum shown is an observation of the sorted
\* series whose distance in time to the pointer date is minimal over the
\* whole series; a pointer date before the first (after the last)
\* observation selects a datum with the first (last) date.
C5_TooltipIsNearest ==
    tooltipData # NoDatum =>
        /\ \E i \in 1..Len(Shown) : Shown[i] = tooltipData
        /\ \A i \in 1..Len(Shown) :
              Abs(getDate(tooltipData) - tooltipX0) <= Abs(getDate(Shown[i]) - tooltipX0)
        /\ tooltipX0 < getDate(Shown[1]) => getDate(tooltipData) = getDate(Shown[1])
        /\ tooltipX0 > getDate(Shown[Len(Shown)])
              => getDate(tooltipData) = getDate(Shown[Len(Shown)])

\* C5 witness: in a series of three, a pointer date strictly between two
\* observations and nearer to the later one selects the later one.
C5_Witness ==
    /\ Len(Shown) = 3
    /\ \E i \in 1..2 :
          /\ getDate(Shown[i]) < tooltipX0
          /\ tooltipX0 < getDate(Shown[i + 1])
          /\ tooltipX0 - getDate(Shown[i]) > getDate(Shown[i + 1]) - tooltipX0
          /\ tooltipData = Shown[i + 1]

\* C5 witness at the boundaries: a pointer date outside the series' dates.
C5_WitnessBoundary ==
    /\ tooltipData # NoDatum
    /\ Len(Shown) >= 2
    /\ tooltipX0 > getDate(Shown[Len(Shown)])
    /\ tooltipData = Shown[Len(Shown)]

\* C6 (as claimed): a pointer date equidistant from its two neighbours
\* selects the later (right) neighbour.
C6_TieSelectsRight ==
    tooltipData # NoDatum =>
        \A i \in 1..(Len(Shown) - 1) : TieAt(i) => tooltipData = Shown[i + 1]

\* C6 (amended): a pointer date equidistant from its two neighbours selects
\* the earlier (left) neighbour.
C6_TieSelectsLeft ==
    tooltipData # NoDatum =>
        \A i \in 1..(Len(Shown) - 1) : TieAt(i) => tooltipData = Shown[i]

\* C6 witness: handleTooltip ran on a pointer date at the midpoint of two
\* consecutive observations and shows the earlier one.
C6_Witness ==
    /\ tooltipData # NoDatum
    /\ \E i \in 1..(Len(Shown) - 1) : TieAt(i) /\ tooltipData = Shown[i]

----------------------------------------------------------------------------
(* Value scale: claims                                                     *)

\* n / d >= m / 3 for rationals with positive denominators.
AtLeastThirds(v, m) == 3 * v[1] >= m * v[2]

\* C7 (as claimed): the upper end of the value scale's domain is at least
\* max(supply) + height / 3, height being the chart height.
C7_UpperAtLeastMaxPlusHeightThird ==
    Len(Shown) > 0 =>
        \A u \in shieldedValueScaleMax(rendered) :
            AtLeastThirds(u, 3 * yMax(Shown) + rendered.height)

\* C7 (amended): the upper end of the value scale's domain is at least
\* max(supply) + innerHeight / 3, innerHeight being the chart height less
\* the top and bottom margins, whenever that sum is not negative.
C7_UpperAtLeastMaxPlusInnerHeightThird ==
    (Len(Shown) > 0 /\ 3 * yMax(Shown) + innerHeight(rendered) >= 0) =>
        \A u \in shieldedValueScaleMax(rendered) :
            AtLeastThirds(u, 3 * yMax(Shown) + innerHeight(rendered))

\* C7 witness: a committed render with margins and a measured height whose
\* domain end was rounded up by nice().
C7_Witness ==
    /\ Len(Shown) > 0
    /\ rendered.height = SmallHeight
    /\ margin.top + margin.bottom > 0
    /\ innerHeight(rendered) > 0
    /\ \E u \in shieldedValueScaleMax(rendered) :
          u[1] * 3 > (3 * yMax(Shown) + innerHeight(rendered)) * u[2]

----------------------------------------------------------------------------
(* Export hook: claims                                                     *)

Returned(i) == calls[i].stage = "returned"

\* The span of call i is a child of a chart div.
Attached(i) == \E e \in 1..MaxElements : i \in children[e]

\* Rasterization, or a later statement of the try block, threw.
FailedInTry(i) == calls[i].outcome \in {"failed", "downloaded, then threw"}

Downloaded(i) == \E d \in downloads : d.call = i

\* divChartRef.current was one and the same element when call i appended
\* its span and when the call finished.
RefKept(i) ==
    /\ calls[i].appendedTo # NoElement
    /\ calls[i].refAtEnd = calls[i].appendedTo

\* C8 (as claimed): after handleSaveToPng returns, its overlay span is still
\* attached if and only if rasterization or the download step failed, and a
\* failed call triggers no download.
C8_OverlayLeftIffFailed ==
    \A i \in 1..Len(calls) :
        Returned(i) =>
            /\ Attached(i) <=> FailedInTry(i)
            /\ FailedInTry(i) => ~Downloaded(i)

\* C8 (amended): the same, for the calls during which divChartRef.current
\* is one non-null element from the append to the end of the call; and an
\* element whose calls all were such calls and have returned holds exactly
\* one overlay per failed call.
C8_OverlayLeftIffFailedWhenRefKept ==
    /\ \A i \in 1..Len(calls) :
          (Returned(i) /\ RefKept(i)) =>
              /\ Attached(i) <=> calls[i].outcome = "failed"
              /\ calls[i].outcome = "failed" => (~Downloaded(i) /\ i \in logged)
              /\ calls[i].outcome # "failed" => (Downloaded(i) /\ i \notin logged)
              /\ Attached(i) => i \in children[calls[i].appendedTo]
    /\ \A e \in 1..MaxElements :
          (\A i \in 1..Len(calls) :
              calls[i].appendedTo = e => (Returned(i) /\ RefKept(i)))
          => children[e] = {i \in 1..Len(calls) :
                               calls[i].appendedTo = e /\ calls[i].outcome = "failed"}

\* C8 witness: on one element, one export failed and left its overlay, and
\* one export downloaded the image and removed its overlay.
C8_Witness ==
    \E i, j \in 1..Len(calls) :
        /\ Returned(i) /\ RefKept(i) /\ Returned(j) /\ RefKept(j)
        /\ calls[i].appendedTo = calls[j].appendedTo
        /\ calls[i].outcome = "failed" /\ Attached(i) /\ ~Downloaded(i)
        /\ calls[j].outcome = "downloaded" /\ ~Attached(j) /\ Downloaded(j)

\* What toLocaleString prints for the supplies of PoolDataInputs.
ExpectedSupplyText(n) ==
    CASE n = 7 -> "7"
      [] n = 999 -> "999"
      [] n = 25843 -> "25,843"
      [] n = 1234567 -> "1,234,567"

\* C9: the overlay text is "<supply> ZEC in Sprout Pool" for poolType
\* "sprout" with a sproutSupply entry, likewise Sapling / saplingSupply and
\* Orchard / orchardSupply, the supply printed with thousands separators,
\* and the empty string for every other poolType.
C9_LabelText ==
    \A i \in 1..Len(calls) :
        LET c == calls[i]
        IN  /\ (c.poolType = "sprout" /\ c.poolData.sproutSupply # NoEntry) =>
                  c.text = ExpectedSupplyText(c.poolData.sproutSupply.supply)
                              \o " ZEC in Sprout Pool"
            /\ (c.poolType = "sapling" /\ c.poolData.saplingSupply # NoEntry) =>
                  c.text = ExpectedSupplyText(c.poolData.saplingSupply.supply)
                              \o " ZEC in Sapling Pool"
            /\ (c.poolType = "orchard" /\ c.poolData.orchardSupply # NoEntry) =>
                  c.text = ExpectedSupplyText(c.poolData.orchardSupply.supply)
                              \o " ZEC in Orchard Pool"
            /\ c.poolType \notin {"sprout", "sapling", "orchard"} => c.text = ""

\* C9 witness: an export of the sapling pool with a seven-digit supply, and
\* an export with another pool type whose label is empty.
C9_Witness ==
    /\ \E i \in 1..Len(calls) :
          /\ calls[i].poolType = "sapling"
          /\ calls[i].poolData.saplingSupply # NoEntry
          /\ calls[i].text = "1,234,567 ZEC in Sapling Pool"
    /\ \E i \in 1..Len(calls) :
          /\ calls[i].poolType = "default"
          /\ calls[i].text = ""

====
